---------------------------- MODULE Spec2Model ----------------------------
(***************************************************************************)
(* Model of ChangeInvisibleTimeProcessor (rocketmq-broker,                 *)
(* processor/change_invisible_time_processor.rs): the handler of a         *)
(* change-invisible-time request of pop consumption.  One handler is one   *)
(* invocation of process_request_inner; its position in the function is    *)
(* pc[h], its locals are loc[h].  The message store, the topic             *)
(* configuration, the ack-merge buffer, the escape bridge and the          *)
(* statistics counters are the collaborators the handler calls.            *)
(***************************************************************************)
EXTENDS Integers, Sequences, FiniteSets, TLC

VARIABLES
    live,           \* the handlers that may receive a request in this run
    pc,             \* handler -> its position in process_request_inner
    req,            \* handler -> the RemotingCommand it handles
    loc,            \* handler -> the locals of process_request_inner / ack_origin
    ret,            \* handler -> the values the handler has returned (a sequence)
    trace,          \* handler -> the calls into collaborators it has made, in order
    ckStore,        \* the checkpoint appends the store has seen, with their status
    ackBuffer,      \* the records pop_buffer_merge_service.add_ack accepted
    reviveStore,    \* the messages put through escape_bridge.put_message_to_specific_queue
    brokerAckNums,  \* broker_stats_manager: the global ack counter
    groupAckNums,   \* broker_stats_manager: the ack counter per (consumer group, topic)
    errorLog        \* handler -> the error! lines it has written

\* QueryConsumerOffsetRequestHeader on the wire (rocketmq-remoting,
\* protocol/header/query_consumer_offset_request_header.rs)
VARIABLES
    hstage,         \* "off", or where the header is: start, wire, decoded, panicked
    hsrc,           \* the header handed to to_map
    horigin,        \* who produced the map on the wire: to_map, or a peer
    hmap,           \* the string map on the wire
    hfirst,         \* what FromMap::from gave for the map before keys were added
    hdecoded        \* the latest result FromMap::from gave

hvars == <<hstage, hsrc, horigin, hmap, hfirst, hdecoded>>

pvars == <<live, pc, req, loc, ret, trace, ckStore, ackBuffer, reviveStore,
           brokerAckNums, groupAckNums, errorLog>>

vars == <<pvars, hvars>>

---------------------------------------------------------------------------
(* Bounds of the model.                                                    *)

\* read_queue_nums of the one configured topic
ReadQueueNums == 2
\* the store's live offset range of an existing queue
StoreMinOffset == 1
StoreMaxOffset == 2

Handlers == {"h1", "h2"}

Topics == {"TopicA", "TopicX"}
ConfiguredTopics == {"TopicA"}
Groups == {"g1", "g2"}
QueueIds == (0 - 1) .. ReadQueueNums
Offsets == (StoreMinOffset - 1) .. (StoreMaxOffset + 1)
\* the new invisible time a request asks for
InvisibleTimes == {7, 8}
\* the values get_current_millis() may return
NowValues == {20, 21}

---------------------------------------------------------------------------
(* PutMessageStatus: the five statuses the processor names, and two of the *)
(* others (the match arms `_`).                                            *)

PutMessageStatus ==
    {"PutOk", "FlushDiskTimeout", "FlushSlaveTimeout", "SlaveNotAvailable",
     "ServiceNotAvailable", "MessageIllegal", "UnknownError"}

---------------------------------------------------------------------------
(* ExtraInfoUtil.  extra_info is a delimiter-joined token string; it is    *)
(* modelled as the sequence of its tokens.  split only tokenises; every    *)
(* getter parses its own token when it is called and fails on its own.     *)

IDX_IS_ORDER == 1
IDX_REVIVE_QID == 2
IDX_BROKER_NAME == 3
IDX_CK_QUEUE_OFFSET == 4
IDX_POP_TIME == 5
IDX_INVISIBLE_TIME == 6

Ok(v) == [ok |-> TRUE, val |-> v]
Err == [ok |-> FALSE, val |-> 0]

\* str::parse::<integer>: the numerals parse, anything else is an error
ParseInt(tok) ==
    CASE tok = "0" -> Ok(0)
      [] tok = "1" -> Ok(1)
      [] tok = "2" -> Ok(2)
      [] tok = "3" -> Ok(3)
      [] tok = "4" -> Ok(4)
      [] tok = "5" -> Ok(5)
      [] tok = "6" -> Ok(6)
      [] OTHER -> Err

split(extra_info) ==
    IF extra_info = <<>> THEN Err ELSE Ok(extra_info)

is_order(tokens) ==
    Len(tokens) >= IDX_IS_ORDER /\ tokens[IDX_IS_ORDER] = "true"

GetIntField(tokens, idx) ==
    IF Len(tokens) < idx THEN Err ELSE ParseInt(tokens[idx])

get_revive_qid(tokens) == GetIntField(tokens, IDX_REVIVE_QID)

get_broker_name(tokens) ==
    IF Len(tokens) < IDX_BROKER_NAME THEN Err ELSE Ok(tokens[IDX_BROKER_NAME])

get_ck_queue_offset(tokens) == GetIntField(tokens, IDX_CK_QUEUE_OFFSET)

get_pop_time(tokens) == GetIntField(tokens, IDX_POP_TIME)

get_invisible_time(tokens) == GetIntField(tokens, IDX_INVISIBLE_TIME)

\* the extra_info strings a consumer may send: well-formed ones, ones with an
\* unparsable token ("x"), truncated ones and the empty string
FullExtraInfos ==
    { <<o, r, "b1", c, p, i>> :
        o \in {"false", "true"}, r \in {"0", "1", "x"}, c \in {"1", "x"},
        p \in {"3", "x"}, i \in {"5", "x"} }

ExtraInfos ==
    FullExtraInfos
    \cup { SubSeq(<<"false", "1", "b1", "1", "3", "5">>, 1, n) : n \in 0 .. 5 }

---------------------------------------------------------------------------
(* Requests.                                                               *)

\* a command whose custom header does not decode
MalformedRequest ==
    [decodable |-> FALSE, consumer_group |-> "g1", topic |-> "TopicA",
     queue_id |-> 0, offset |-> 0, invisible_time |-> 0, extra_info |-> <<>>]

Requests ==
    [decodable : {TRUE}, consumer_group : Groups, topic : Topics,
     queue_id : QueueIds, offset : Offsets, invisible_time : InvisibleTimes,
     extra_info : ExtraInfos]
    \cup {MalformedRequest}

\* two requests for the same (topic, queue, offset) handled at the same time:
\* what the two handlers of a concurrent run may receive
ConcurrentRequests ==
    [decodable : {TRUE}, consumer_group : {"g1"}, topic : {"TopicA"},
     queue_id : {0}, offset : {StoreMinOffset}, invisible_time : InvisibleTimes,
     extra_info : { <<"false", "1", "b1", "1", "3", "5">>,
                    <<"false", "0", "b1", "1", "3">>,
                    <<"true", "1", "b1", "1", "3", "5">> }]

\* the requests that may arrive in a run
Pool == IF live = Handlers THEN ConcurrentRequests ELSE Requests

NoRequest == [decodable |-> FALSE, consumer_group |-> "", topic |-> "",
              queue_id |-> 0, offset |-> 0, invisible_time |-> 0,
              extra_info |-> <<>>]

---------------------------------------------------------------------------
(* Collaborators read by the validation.                                   *)

\* topic_config_manager.select_topic_config: None, or the topic's config
select_topic_config(topic) ==
    IF topic \in ConfiguredTopics
    THEN [found |-> TRUE, read_queue_nums |-> ReadQueueNums]
    ELSE [found |-> FALSE, read_queue_nums |-> 0]

QueueExists(topic, queue_id) ==
    topic \in ConfiguredTopics /\ queue_id >= 0 /\ queue_id < ReadQueueNums

\* message_store.get_min_offset_in_queue / get_max_offset_in_queue
get_min_offset_in_queue(topic, queue_id) ==
    IF QueueExists(topic, queue_id) THEN StoreMinOffset ELSE 0

get_max_offset_in_queue(topic, queue_id) ==
    IF QueueExists(topic, queue_id) THEN StoreMaxOffset ELSE 0

---------------------------------------------------------------------------
(* The decisions and constructions of process_request_inner / ack_origin.  *)

\* `topic_config.is_none()`
TopicConfigIsNoneInverted(topic_config) ==
    topic_config.found

TopicConfigIsNone(topic_config) ==
    ~topic_config.found

QueueIdIllegalOffByOne(queue_id, read_queue_nums) ==
    queue_id > read_queue_nums \/ queue_id < 0

QueueIdIllegal(queue_id, read_queue_nums) ==
    queue_id >= read_queue_nums \/ queue_id < 0

OffsetNotInRangeExclusive(offset, min_offset, max_offset) ==
    offset <= min_offset \/ offset >= max_offset

OffsetNotInRange(offset, min_offset, max_offset) ==
    offset < min_offset \/ offset > max_offset

CkStatusAcceptedAny(status) ==
    status \in PutMessageStatus

CkStatusAcceptedOnlyPutOk(status) ==
    status = "PutOk"

CkStatusAcceptedLikeAck(status) ==
    status \in {"PutOk", "FlushDiskTimeout", "FlushSlaveTimeout", "SlaveNotAvailable",
                "ServiceNotAvailable"}

\* the arms of `match ck_result.put_message_status()` that fall through
CkStatusAccepted(status) ==
    status \in {"PutOk", "FlushDiskTimeout", "FlushSlaveTimeout", "SlaveNotAvailable"}

AckStatusAcceptedLikeCk(status) ==
    status \in {"PutOk", "FlushDiskTimeout", "FlushSlaveTimeout", "SlaveNotAvailable"}

\* the arms of `match result.put_message_status()` in ack_origin that log nothing
AckStatusAccepted(status) ==
    status \in {"PutOk", "FlushDiskTimeout", "FlushSlaveTimeout", "SlaveNotAvailable",
                "ServiceNotAvailable"}

BranchAfterSplitAlwaysNormal(extra_info) == "new_ck"

\* `if ExtraInfoUtil::is_order(..) { return self.process_change_invisible_time_for_order(..) }`
BranchAfterSplit(extra_info) ==
    IF is_order(extra_info) THEN "order" ELSE "new_ck"

ResponseCommand(code) ==
    [kind |-> "Response", code |-> code, pop_time |-> 0, revive_qid |-> 0,
     invisible_time |-> 0]

SuccessResponseSwapped(now, revive_qid, request_header) ==
    [kind |-> "Response", code |-> "Success",
     pop_time |-> request_header.invisible_time,
     revive_qid |-> revive_qid, invisible_time |-> now]

\* ChangeInvisibleTimeResponseHeader { pop_time: now, revive_qid, invisible_time }
SuccessResponse(now, revive_qid, request_header) ==
    [kind |-> "Response", code |-> "Success", pop_time |-> now,
     revive_qid |-> revive_qid, invisible_time |-> request_header.invisible_time]

ErrResult ==
    [kind |-> "Err", code |-> "", pop_time |-> 0, revive_qid |-> 0,
     invisible_time |-> 0]

NoAckMsg ==
    [ack_offset |-> 0, start_offset |-> 0, consumer_group |-> "", topic |-> "",
     queue_id |-> 0, pop_time |-> 0, broker_name |-> ""]

BuildAckMsgStartFromRequest(request_header, start_offset, pop_time, broker_name) ==
    [ack_offset |-> request_header.offset,
     start_offset |-> request_header.offset,
     consumer_group |-> request_header.consumer_group,
     topic |-> request_header.topic,
     queue_id |-> request_header.queue_id,
     pop_time |-> pop_time,
     broker_name |-> broker_name]

\* AckMsg { ack_offset, start_offset, consumer_group, topic, queue_id, pop_time, broker_name }
BuildAckMsg(request_header, start_offset, pop_time, broker_name) ==
    [ack_offset |-> request_header.offset,
     start_offset |-> start_offset,
     consumer_group |-> request_header.consumer_group,
     topic |-> request_header.topic,
     queue_id |-> request_header.queue_id,
     pop_time |-> pop_time,
     broker_name |-> broker_name]

ReviveTopic == "rmq_sys_REVIVE_LOG_cluster"
ACK_TAG == "ack"

DeliverTimeMs(pop_time, invisible_time) == pop_time + invisible_time

BuildReviveMessageRequestQueue(ack_msg, rq_id, deliver_time_ms) ==
    [topic |-> ReviveTopic, body |-> ack_msg, queue_id |-> ack_msg.queue_id,
     tags |-> ACK_TAG, delay_time_ms |-> deliver_time_ms]

\* MessageExtBrokerInner: topic, body, queue_id = rq_id, tags, delay_time_ms
BuildReviveMessage(ack_msg, rq_id, deliver_time_ms) ==
    [topic |-> ReviveTopic, body |-> ack_msg, queue_id |-> rq_id,
     tags |-> ACK_TAG, delay_time_ms |-> deliver_time_ms]

NoReviveMessage ==
    [topic |-> "", body |-> NoAckMsg, queue_id |-> 0, tags |-> "",
     delay_time_ms |-> 0]

ResultAfterAckEscalating(ack_result, now, revive_qid, request_header) ==
    IF ack_result = "Err"
    THEN ResponseCommand("SystemError")
    ELSE SuccessResponse(now, revive_qid, request_header)

\* what process_request_inner returns once ack_origin has returned ack_result:
\* an Err of ack_origin is logged and the response is built all the same
ResultAfterAck(ack_result, now, revive_qid, request_header) ==
    SuccessResponse(now, revive_qid, request_header)

---------------------------------------------------------------------------
(* QueryConsumerOffsetRequestHeader: to_map and FromMap::from.  A text is  *)
(* a TLA+ string, except the text of an integer, which is the sequence of  *)
(* its characters, so that to_string and parse really convert.             *)

None == [some |-> FALSE, val |-> FALSE]
Some(v) == [some |-> TRUE, val |-> v]

CONSUMER_GROUP == "consumerGroup"
TOPIC == "topic"
QUEUE_ID == "queueId"
SET_ZERO_IF_NOT_FOUND == "setZeroIfNotFound"
\* the key of TopicRequestHeader
LO == "lo"

DigitChars == <<"0", "1", "2", "3", "4", "5", "6", "7", "8", "9">>

RECURSIVE NatToString(_)
NatToString(n) ==
    IF n < 10
    THEN <<DigitChars[n + 1]>>
    ELSE Append(NatToString(n \div 10), DigitChars[(n % 10) + 1])

\* i32::to_string
i32_to_string(n) ==
    IF n < 0 THEN <<"-">> \o NatToString(0 - n) ELSE NatToString(n)

IsDigit(c) == \E d \in 1 .. 10 : DigitChars[d] = c

DigitValue(c) == (CHOOSE d \in 1 .. 10 : DigitChars[d] = c) - 1

RECURSIVE DigitsToNat(_)
DigitsToNat(cs) ==
    IF cs = <<>>
    THEN 0
    ELSE DigitsToNat(SubSeq(cs, 1, Len(cs) - 1)) * 10 + DigitValue(cs[Len(cs)])

\* str::parse::<i32>: an optional sign, then one digit at least, nothing else
parse_i32(text) ==
    IF text = <<>>
    THEN Err
    ELSE LET digits == IF text[1] \in {"-", "+"} THEN Tail(text) ELSE text
         IN  IF digits = <<>> \/ \E i \in 1 .. Len(digits) : ~IsDigit(digits[i])
             THEN Err
             ELSE IF text[1] = "-"
                  THEN Ok(0 - DigitsToNat(digits))
                  ELSE Ok(DigitsToNat(digits))

\* bool::to_string
bool_to_string(b) == IF b THEN "true" ELSE "false"

\* str::parse::<bool>
parse_bool(text) ==
    IF text = "true" THEN Ok(TRUE)
    ELSE IF text = "false" THEN Ok(FALSE)
    ELSE Err

\* HashMap::new, insert, extend, get
EmptyMap == [k \in {} |-> ""]

MapInsert(map, key, value) ==
    [k \in DOMAIN map \cup {key} |-> IF k = key THEN value ELSE map[k]]

MapExtend(map, other) ==
    [k \in DOMAIN map \cup DOMAIN other |->
        IF k \in DOMAIN other THEN other[k] ELSE map[k]]

MapGet(map, key) ==
    IF key \in DOMAIN map THEN Some(map[key]) ELSE [some |-> FALSE, val |-> ""]

\* TopicRequestHeader: its to_map and FromMap::from, for the field lo
DefaultTopicRequestHeader == [lo |-> None]

topic_request_header_to_map(trh) ==
    IF trh.lo.some
    THEN MapInsert(EmptyMap, LO, bool_to_string(trh.lo.val))
    ELSE EmptyMap

topic_request_header_from(map) ==
    LET lo == MapGet(map, LO)
    IN  Ok([lo |-> IF lo.some /\ parse_bool(lo.val).ok
                   THEN Some(parse_bool(lo.val).val)
                   ELSE None])

to_map_always_set_zero(header) ==
    LET m1 == MapInsert(EmptyMap, CONSUMER_GROUP, header.consumer_group)
        m2 == MapInsert(m1, TOPIC, header.topic)
        m3 == MapInsert(m2, QUEUE_ID, i32_to_string(header.queue_id))
    IN  MapInsert(m3, SET_ZERO_IF_NOT_FOUND,
                  bool_to_string(header.set_zero_if_not_found.some
                                 /\ header.set_zero_if_not_found.val))

\* CommandCustomHeader::to_map
to_map(header) ==
    LET m1 == MapInsert(EmptyMap, CONSUMER_GROUP, header.consumer_group)
        m2 == MapInsert(m1, TOPIC, header.topic)
        m3 == MapInsert(m2, QUEUE_ID, i32_to_string(header.queue_id))
        m4 == IF header.set_zero_if_not_found.some
              THEN MapInsert(m3, SET_ZERO_IF_NOT_FOUND,
                             bool_to_string(header.set_zero_if_not_found.val))
              ELSE m3
    IN  IF header.topic_request_header.some
        THEN MapExtend(m4, topic_request_header_to_map(header.topic_request_header.val))
        ELSE m4

NoHeader ==
    [consumer_group |-> "", topic |-> "", queue_id |-> 0,
     set_zero_if_not_found |-> None,
     topic_request_header |-> [some |-> FALSE, val |-> DefaultTopicRequestHeader]]

\* what FromMap::from gives: Ok(header), Err(e), or a panic (unwrap)
Decoded(outcome, header) == [outcome |-> outcome, header |-> header]

NotDecoded == Decoded("None", NoHeader)

RecognisedKeys == {CONSUMER_GROUP, TOPIC, QUEUE_ID, SET_ZERO_IF_NOT_FOUND, LO}

FromMapDenyUnknown(map) ==
    IF ~(DOMAIN map \subseteq RecognisedKeys)
    THEN Decoded("Err", NoHeader)
    ELSE Decoded("Ok",
           [consumer_group |-> IF MapGet(map, CONSUMER_GROUP).some
                               THEN map[CONSUMER_GROUP] ELSE "",
            topic |-> IF MapGet(map, TOPIC).some THEN map[TOPIC] ELSE "",
            queue_id |-> IF MapGet(map, QUEUE_ID).some /\ parse_i32(map[QUEUE_ID]).ok
                         THEN parse_i32(map[QUEUE_ID]).val ELSE 0,
            set_zero_if_not_found |->
                IF MapGet(map, SET_ZERO_IF_NOT_FOUND).some
                   /\ parse_bool(map[SET_ZERO_IF_NOT_FOUND]).ok
                THEN Some(parse_bool(map[SET_ZERO_IF_NOT_FOUND]).val)
                ELSE None,
            topic_request_header |-> Some(topic_request_header_from(map).val)])

\* FromMap::from
FromMap(map) ==
    LET consumer_group == MapGet(map, CONSUMER_GROUP)
        topic == MapGet(map, TOPIC)
        queue_id == MapGet(map, QUEUE_ID)
        set_zero == MapGet(map, SET_ZERO_IF_NOT_FOUND)
        trh == topic_request_header_from(map)
    IN  IF queue_id.some /\ ~parse_i32(queue_id.val).ok
        THEN Decoded("Panic", NoHeader)
        ELSE IF ~trh.ok
        THEN Decoded("Err", NoHeader)
        ELSE Decoded("Ok",
               [consumer_group |-> IF consumer_group.some THEN consumer_group.val ELSE "",
                topic |-> IF topic.some THEN topic.val ELSE "",
                queue_id |-> IF queue_id.some THEN parse_i32(queue_id.val).val ELSE 0,
                set_zero_if_not_found |->
                    IF set_zero.some /\ parse_bool(set_zero.val).ok
                    THEN Some(parse_bool(set_zero.val).val)
                    ELSE None,
                topic_request_header |-> Some(trh.val)])

\* the headers handed to to_map
HeaderQueueIds == {0 - 120, 0 - 1, 0, 7, 305}

Headers ==
    [consumer_group : {"g1", "g2"}, topic : {"TopicA", ""},
     queue_id : HeaderQueueIds,
     set_zero_if_not_found : {None, Some(TRUE), Some(FALSE)},
     topic_request_header :
        {[some |-> FALSE, val |-> DefaultTopicRequestHeader],
         Some(DefaultTopicRequestHeader), Some([lo |-> Some(TRUE)])}]

\* the maps a peer may send: keys absent, values that do not parse
PeerMaps ==
    { MapExtend(MapExtend(g, q), z) :
        g \in {EmptyMap, MapInsert(EmptyMap, CONSUMER_GROUP, "g1")},
        q \in {EmptyMap, MapInsert(EmptyMap, QUEUE_ID, <<"+", "4">>),
               MapInsert(EmptyMap, QUEUE_ID, <<"-", "0", "9">>),
               MapInsert(EmptyMap, QUEUE_ID, <<"1", "x">>),
               MapInsert(EmptyMap, QUEUE_ID, <<"-">>)},
        z \in {EmptyMap, MapInsert(EmptyMap, SET_ZERO_IF_NOT_FOUND, "true"),
               MapInsert(EmptyMap, SET_ZERO_IF_NOT_FOUND, "TRUE"),
               MapInsert(EmptyMap, LO, "false")} }

\* keys the header does not know
UnknownKeys == {"traceId", "zone"}

HeaderOff ==
    /\ hstage = "off"
    /\ hsrc = NoHeader
    /\ horigin = "none"
    /\ hmap = EmptyMap
    /\ hfirst = NotDecoded
    /\ hdecoded = NotDecoded

---------------------------------------------------------------------------
(* State.                                                                  *)

NoLocals ==
    [extra_info |-> <<>>, now |-> 0, revive_qid |-> 0, broker_name |-> "",
     ck_status |-> "", ack_msg |-> NoAckMsg, rq_id |-> 0,
     inner |-> NoReviveMessage, ack_result |-> "", store_queries |-> 0]

Labels ==
    {"idle", "decode_header", "select_topic", "check_queue_id", "check_offset",
     "split_extra_info", "order", "new_ck", "append_check_point", "match_ck",
     "ack_origin", "inc_broker_ack_nums", "inc_group_ack_nums", "add_ack",
     "build_inner", "put_message", "match_ack", "respond", "done", "panicked"}

InitShared ==
    /\ pc = [h \in Handlers |-> "idle"]
    /\ req = [h \in Handlers |-> NoRequest]
    /\ loc = [h \in Handlers |-> NoLocals]
    /\ ret = [h \in Handlers |-> <<>>]
    /\ trace = [h \in Handlers |-> <<>>]
    /\ ckStore = <<>>
    /\ ackBuffer = <<>>
    /\ reviveStore = <<>>
    /\ brokerAckNums = 0
    /\ groupAckNums = [k \in Groups \X Topics |-> 0]
    /\ errorLog = [h \in Handlers |-> <<>>]

Init ==
    /\ live = {"h1"}
    /\ InitShared
    /\ HeaderOff

\* both handlers run at the same time, on requests for the same message
InitConcurrent ==
    /\ live = Handlers
    /\ InitShared
    /\ HeaderOff

\* return `value` from process_request_inner
Return(h, value) ==
    /\ ret' = [ret EXCEPT ![h] = Append(@, value)]
    /\ pc' = [pc EXCEPT ![h] = "done"]

Goto(h, label) == pc' = [pc EXCEPT ![h] = label]

Called(h, event) == trace' = [trace EXCEPT ![h] = Append(@, event)]

LogError(h, line) == errorLog' = [errorLog EXCEPT ![h] = Append(@, line)]

Shared == <<ckStore, ackBuffer, reviveStore, brokerAckNums, groupAckNums>>

---------------------------------------------------------------------------
(* Actions: the steps of process_request_inner.                            *)

\* process_request: a request arrives and is handed to process_request_inner
Receive(h) ==
    /\ h \in live
    /\ pc[h] = "idle"
    /\ \E r \in Pool : req' = [req EXCEPT ![h] = r]
    /\ Goto(h, "decode_header")
    /\ UNCHANGED <<hvars, live, loc, ret, trace, errorLog, Shared>>

\* decode_command_custom_header::<ChangeInvisibleTimeRequestHeader>()?
DecodeHeader(h) ==
    /\ pc[h] = "decode_header"
    /\ IF req[h].decodable
       THEN Goto(h, "select_topic") /\ UNCHANGED ret
       ELSE Return(h, ErrResult)
    /\ UNCHANGED <<hvars, live, req, loc, trace, errorLog, Shared>>

SelectTopic(h) ==
    /\ pc[h] = "select_topic"
    /\ IF TopicConfigIsNone(select_topic_config(req[h].topic))
       THEN /\ Return(h, ResponseCommand("TopicNotExist"))
            /\ LogError(h, "topic not exist")
       ELSE /\ Goto(h, "check_queue_id")
            /\ UNCHANGED <<ret, errorLog>>
    /\ UNCHANGED <<hvars, live, req, loc, trace, Shared>>

CheckQueueId(h) ==
    /\ pc[h] = "check_queue_id"
    /\ IF QueueIdIllegal(req[h].queue_id,
                         select_topic_config(req[h].topic).read_queue_nums)
       THEN /\ Return(h, ResponseCommand("MessageIllegal"))
            /\ LogError(h, "queueId is illegal")
       ELSE /\ Goto(h, "check_offset")
            /\ UNCHANGED <<ret, errorLog>>
    /\ UNCHANGED <<hvars, live, req, loc, trace, Shared>>

CheckOffset(h) ==
    /\ pc[h] = "check_offset"
    /\ LET mix_offset == get_min_offset_in_queue(req[h].topic, req[h].queue_id)
           max_offset == get_max_offset_in_queue(req[h].topic, req[h].queue_id)
       IN  /\ loc' = [loc EXCEPT ![h].store_queries = @ + 2]
           /\ IF OffsetNotInRange(req[h].offset, mix_offset, max_offset)
              THEN Return(h, ResponseCommand("NoMessage"))
              ELSE Goto(h, "split_extra_info") /\ UNCHANGED ret
    /\ UNCHANGED <<hvars, live, req, trace, errorLog, Shared>>

\* ExtraInfoUtil::split(..)? and the is_order branch
SplitExtraInfo(h) ==
    /\ pc[h] = "split_extra_info"
    /\ LET extra_info == split(req[h].extra_info)
       IN  IF ~extra_info.ok
           THEN Return(h, ErrResult) /\ UNCHANGED loc
           ELSE /\ loc' = [loc EXCEPT ![h].extra_info = extra_info.val]
                /\ UNCHANGED ret
                /\ Goto(h, BranchAfterSplit(extra_info.val))
    /\ UNCHANGED <<hvars, live, req, trace, errorLog, Shared>>

\* process_change_invisible_time_for_order: unimplemented!() panics
ProcessChangeInvisibleTimeForOrder(h) ==
    /\ pc[h] = "order"
    /\ Goto(h, "panicked")
    /\ UNCHANGED <<hvars, live, req, loc, ret, trace, errorLog, Shared>>

\* let now = get_current_millis(); get_revive_qid(..)?; get_broker_name(..)?
NewCk(h) ==
    /\ pc[h] = "new_ck"
    /\ \E now \in NowValues :
         LET revive_qid == get_revive_qid(loc[h].extra_info)
             broker_name == get_broker_name(loc[h].extra_info)
         IN  IF ~revive_qid.ok \/ ~broker_name.ok
             THEN /\ Return(h, ErrResult)
                  /\ loc' = [loc EXCEPT ![h].now = now]
             ELSE /\ loc' = [loc EXCEPT ![h].now = now,
                                        ![h].revive_qid = revive_qid.val,
                                        ![h].broker_name = broker_name.val]
                  /\ Goto(h, "append_check_point")
                  /\ UNCHANGED ret
    /\ UNCHANGED <<hvars, live, req, trace, errorLog, Shared>>

\* append_check_point: the checkpoint (pop_time = now) is handed to the store,
\* which answers with a PutMessageStatus
AppendCheckPoint(h) ==
    /\ pc[h] = "append_check_point"
    /\ \E status \in PutMessageStatus :
         /\ ckStore' = Append(ckStore,
                [by |-> h, topic |-> req[h].topic, queue_id |-> req[h].queue_id,
                 offset |-> req[h].offset,
                 invisible_time |-> req[h].invisible_time,
                 revive_qid |-> loc[h].revive_qid, pop_time |-> loc[h].now,
                 broker_name |-> loc[h].broker_name, status |-> status])
         /\ loc' = [loc EXCEPT ![h].ck_status = status]
         /\ Called(h, [op |-> "append_check_point", arg |-> status])
    /\ Goto(h, "match_ck")
    /\ UNCHANGED <<hvars, live, req, ret, errorLog, ackBuffer, reviveStore,
                   brokerAckNums, groupAckNums>>

\* match ck_result.put_message_status()
MatchCk(h) ==
    /\ pc[h] = "match_ck"
    /\ IF CkStatusAccepted(loc[h].ck_status)
       THEN /\ Goto(h, "ack_origin")
            /\ UNCHANGED <<ret, errorLog>>
       ELSE /\ LogError(h, "put new ck error")
            /\ Return(h, ResponseCommand("SystemError"))
    /\ UNCHANGED <<hvars, live, req, loc, trace, Shared>>

\* ack_origin, up to the statistics: the AckMsg and rq_id, each getter with `?`
AckOrigin(h) ==
    /\ pc[h] = "ack_origin"
    /\ LET start_offset == get_ck_queue_offset(loc[h].extra_info)
           pop_time == get_pop_time(loc[h].extra_info)
           broker_name == get_broker_name(loc[h].extra_info)
           rq_id == get_revive_qid(loc[h].extra_info)
       IN  IF ~start_offset.ok \/ ~pop_time.ok \/ ~broker_name.ok \/ ~rq_id.ok
           THEN /\ loc' = [loc EXCEPT ![h].ack_result = "Err"]
                /\ Goto(h, "respond")
           ELSE /\ loc' = [loc EXCEPT
                             ![h].ack_msg = BuildAckMsg(req[h], start_offset.val,
                                                        pop_time.val, broker_name.val),
                             ![h].rq_id = rq_id.val]
                /\ Goto(h, "inc_broker_ack_nums")
    /\ UNCHANGED <<hvars, live, req, ret, trace, errorLog, Shared>>

IncBrokerAckNums(h) ==
    /\ pc[h] = "inc_broker_ack_nums"
    /\ brokerAckNums' = brokerAckNums + 1
    /\ Called(h, [op |-> "inc_broker_ack_nums", arg |-> ""])
    /\ Goto(h, "inc_group_ack_nums")
    /\ UNCHANGED <<hvars, live, req, loc, ret, errorLog, ckStore, ackBuffer,
                   reviveStore, groupAckNums>>

IncGroupAckNums(h) ==
    /\ pc[h] = "inc_group_ack_nums"
    /\ groupAckNums' = [groupAckNums EXCEPT
                          ![<<req[h].consumer_group, req[h].topic>>] = @ + 1]
    /\ Called(h, [op |-> "inc_group_ack_nums", arg |-> ""])
    /\ Goto(h, "add_ack")
    /\ UNCHANGED <<hvars, live, req, loc, ret, errorLog, ckStore, ackBuffer,
                   reviveStore, brokerAckNums>>

\* pop_buffer_merge_service.add_ack(rq_id, &ack_msg): the buffer accepts or declines
AddAck(h) ==
    /\ pc[h] = "add_ack"
    /\ \E accepted \in BOOLEAN :
         /\ Called(h, [op |-> "add_ack", arg |-> IF accepted THEN "true" ELSE "false"])
         /\ IF accepted
            THEN /\ ackBuffer' = Append(ackBuffer,
                        [by |-> h, rq_id |-> loc[h].rq_id, ack_msg |-> loc[h].ack_msg])
                 /\ loc' = [loc EXCEPT ![h].ack_result = "Ok"]
                 /\ Goto(h, "respond")
            ELSE /\ UNCHANGED <<ackBuffer, loc>>
                 /\ Goto(h, "build_inner")
    /\ UNCHANGED <<hvars, live, req, ret, errorLog, ckStore, reviveStore,
                   brokerAckNums, groupAckNums>>

\* the revive-topic message of the declined ack; get_pop_time(..)? + get_invisible_time(..)?
BuildInner(h) ==
    /\ pc[h] = "build_inner"
    /\ LET pop_time == get_pop_time(loc[h].extra_info)
           invisible_time == get_invisible_time(loc[h].extra_info)
       IN  IF ~pop_time.ok \/ ~invisible_time.ok
           THEN /\ loc' = [loc EXCEPT ![h].ack_result = "Err"]
                /\ Goto(h, "respond")
           ELSE /\ loc' = [loc EXCEPT ![h].inner =
                             BuildReviveMessage(loc[h].ack_msg, loc[h].rq_id,
                                 DeliverTimeMs(pop_time.val, invisible_time.val))]
                /\ Goto(h, "put_message")
    /\ UNCHANGED <<hvars, live, req, ret, trace, errorLog, Shared>>

\* escape_bridge.put_message_to_specific_queue(inner) and the match on its status
PutMessageToSpecificQueue(h) ==
    /\ pc[h] = "put_message"
    /\ \E status \in PutMessageStatus :
         /\ reviveStore' = Append(reviveStore,
                [by |-> h, msg |-> loc[h].inner, status |-> status])
         /\ Called(h, [op |-> "put_message_to_specific_queue", arg |-> status])
         /\ IF AckStatusAccepted(status)
            THEN UNCHANGED errorLog
            ELSE LogError(h, "put ack msg error")
    /\ loc' = [loc EXCEPT ![h].ack_result = "Ok"]
    /\ Goto(h, "respond")
    /\ UNCHANGED <<hvars, live, req, ret, ckStore, ackBuffer, brokerAckNums,
                   groupAckNums>>

RespondRollingBack(h) ==
    /\ pc[h] = "respond"
    /\ IF loc[h].ack_result = "Err"
       THEN /\ LogError(h, "put ack msg error")
            /\ LET NotOwn(c) == c.by # h
               IN  ckStore' = SelectSeq(ckStore, NotOwn)
       ELSE UNCHANGED <<errorLog, ckStore>>
    /\ Return(h, ResultAfterAck(loc[h].ack_result, loc[h].now, loc[h].revive_qid,
                                req[h]))
    /\ UNCHANGED <<hvars, live, req, loc, trace, ackBuffer, reviveStore,
                   brokerAckNums, groupAckNums>>

\* if let Err(e) = ack_origin(..) { error!(..) }; the response header; Ok(Some(..))
Respond(h) ==
    /\ pc[h] = "respond"
    /\ IF loc[h].ack_result = "Err"
       THEN LogError(h, "put ack msg error")
       ELSE UNCHANGED errorLog
    /\ Return(h, ResultAfterAck(loc[h].ack_result, loc[h].now, loc[h].revive_qid,
                                req[h]))
    /\ UNCHANGED <<hvars, live, req, loc, trace, Shared>>

Next ==
    \E h \in Handlers :
        \/ Receive(h)
        \/ DecodeHeader(h)
        \/ SelectTopic(h)
        \/ CheckQueueId(h)
        \/ CheckOffset(h)
        \/ SplitExtraInfo(h)
        \/ ProcessChangeInvisibleTimeForOrder(h)
        \/ NewCk(h)
        \/ AppendCheckPoint(h)
        \/ MatchCk(h)
        \/ AckOrigin(h)
        \/ IncBrokerAckNums(h)
        \/ IncGroupAckNums(h)
        \/ AddAck(h)
        \/ BuildInner(h)
        \/ PutMessageToSpecificQueue(h)
        \/ Respond(h)

Spec == Init /\ [][Next]_vars

SpecConcurrent == InitConcurrent /\ [][Next]_vars

---------------------------------------------------------------------------
(* The header on the wire: a header is encoded by to_map, or a peer sends  *)
(* a map; keys the header does not know may be added to the map; the map   *)
(* is decoded by FromMap::from.                                            *)

InitHeader ==
    /\ live = {}
    /\ InitShared
    /\ hstage = "start"
    /\ hsrc \in Headers \cup {NoHeader}
    /\ horigin = "none"
    /\ hmap = EmptyMap
    /\ hfirst = NotDecoded
    /\ hdecoded = NotDecoded

ToMap ==
    /\ hstage = "start"
    /\ hmap' = to_map(hsrc)
    /\ horigin' = "to_map"
    /\ hstage' = "wire"
    /\ UNCHANGED <<pvars, hsrc, hfirst, hdecoded>>

PeerSends ==
    /\ hstage = "start"
    /\ hsrc = NoHeader
    /\ hmap' \in PeerMaps
    /\ horigin' = "peer"
    /\ hstage' = "wire"
    /\ UNCHANGED <<pvars, hsrc, hfirst, hdecoded>>

AddUnknownKey ==
    /\ hstage \in {"wire", "decoded"}
    /\ \E key \in UnknownKeys \ DOMAIN hmap :
         hmap' = MapInsert(hmap, key, "v")
    /\ hstage' = "wire"
    /\ UNCHANGED <<pvars, hsrc, horigin, hfirst, hdecoded>>

Decode ==
    /\ hstage = "wire"
    /\ hdecoded' = FromMap(hmap)
    /\ hfirst' = IF DOMAIN hmap \cap UnknownKeys = {} THEN FromMap(hmap) ELSE hfirst
    /\ hstage' = IF FromMap(hmap).outcome = "Panic" THEN "panicked" ELSE "decoded"
    /\ UNCHANGED <<pvars, hsrc, horigin, hmap>>

NextHeader == ToMap \/ PeerSends \/ AddUnknownKey \/ Decode

SpecHeader == InitHeader /\ [][NextHeader]_vars

TypeOK ==
    /\ pc \in [Handlers -> Labels]
    /\ \A h \in Handlers : Len(ret[h]) <= 1

---------------------------------------------------------------------------
(* Vocabulary of the properties.                                           *)

SeqToSet(q) == {q[i] : i \in 1 .. Len(q)}

AckOps ==
    {"inc_broker_ack_nums", "inc_group_ack_nums", "add_ack",
     "put_message_to_specific_queue"}

\* the statuses of a checkpoint append after which the request goes on
AcceptedCkStatuses ==
    {"PutOk", "FlushDiskTimeout", "FlushSlaveTimeout", "SlaveNotAvailable"}

Checkpoints(h) == {c \in SeqToSet(ckStore) : c.by = h}
BufferedAcks(h) == {a \in SeqToSet(ackBuffer) : a.by = h}
ReviveMessages(h) == {m \in SeqToSet(reviveStore) : m.by = h}
AckCalls(h) == {i \in 1 .. Len(trace[h]) : trace[h][i].op \in AckOps}

Terminated(h) == pc[h] \in {"done", "panicked"}
Started(h) == pc[h] # "idle"

\* nothing of handler h has reached the store, the buffer or the counters
NoCheckpointOrAck(h) ==
    /\ Checkpoints(h) = {}
    /\ BufferedAcks(h) = {}
    /\ ReviveMessages(h) = {}
    /\ trace[h] = <<>>

IsSuccess(r) == r.kind = "Response" /\ r.code = "Success"

ReturnedCode(h, code) ==
    /\ Len(ret[h]) = 1
    /\ ret[h][1].kind = "Response"
    /\ ret[h][1].code = code

OnExistingTopic(h) ==
    Started(h) /\ req[h].decodable /\ req[h].topic \in ConfiguredTopics

QueueIdInRange(h) == req[h].queue_id >= 0 /\ req[h].queue_id < ReadQueueNums

---------------------------------------------------------------------------
(* C1  Write-ahead ordering.  At every point of every run, each            *)
(* acknowledgment attempt of a handler (a statistics increment, an add_ack *)
(* offer, a durable revive-topic put) comes after a checkpoint append of   *)
(* the same handler that returned an accepted status; and whatever the     *)
(* buffer, the revive topic or the counters hold of a handler, the store   *)
(* holds an accepted checkpoint of that handler.                           *)
C1_WriteAhead ==
    \A h \in Handlers :
        /\ \A i \in AckCalls(h) :
              \E j \in 1 .. (i - 1) :
                  /\ trace[h][j].op = "append_check_point"
                  /\ trace[h][j].arg \in AcceptedCkStatuses
        /\ (BufferedAcks(h) # {} \/ ReviveMessages(h) # {} \/ AckCalls(h) # {})
              => \E c \in Checkpoints(h) : c.status \in AcceptedCkStatuses
        /\ pc[h] \in {"ack_origin", "inc_broker_ack_nums", "inc_group_ack_nums",
                      "add_ack", "build_inner", "put_message", "respond"}
              => loc[h].ck_status \in AcceptedCkStatuses

\* a handler has put a durable ack after its checkpoint
C1_Witness ==
    \E h \in Handlers :
        /\ ReviveMessages(h) # {}
        /\ BufferedAcks(h) = {}
        /\ \E c \in Checkpoints(h) : c.status = "FlushDiskTimeout"

(* C2  Hard failure of the checkpoint append.  Once the append of a        *)
(* handler has returned a status outside the accepted ones, the handler    *)
(* never makes an acknowledgment call (no counter increment, no add_ack,   *)
(* no durable put), and when it has returned it has returned exactly the   *)
(* SystemError response.                                                   *)
C2_HardFailure ==
    \A h \in Handlers :
        (loc[h].ck_status # "" /\ loc[h].ck_status \notin AcceptedCkStatuses) =>
            /\ AckCalls(h) = {}
            /\ BufferedAcks(h) = {}
            /\ ReviveMessages(h) = {}
            /\ pc[h] \in {"match_ck", "done"}
            /\ pc[h] = "done" => ReturnedCode(h, "SystemError")
            /\ pc[h] # "done" => ret[h] = <<>>

C2_Witness ==
    \E h \in Handlers :
        /\ loc[h].ck_status = "MessageIllegal"
        /\ pc[h] = "done"
        /\ ReturnedCode(h, "SystemError")

(* C3  Success response.  A handler that has returned for a request on an  *)
(* existing topic, with queue_id in [0, read_queue_nums), offset in        *)
(* [min_offset, max_offset] and an extra_info that is not ordered, and     *)
(* whose checkpoint append was accepted, has returned one success response *)
(* whose invisible_time is the request's, whose pop_time is the pop_time   *)
(* the checkpoint was appended with, and whose revive_qid is the revive    *)
(* queue id of extra_info.                                                 *)
C3_SuccessResponse ==
    \A h \in Handlers :
        \A c \in Checkpoints(h) :
            ( /\ pc[h] = "done"
              /\ OnExistingTopic(h)
              /\ QueueIdInRange(h)
              /\ req[h].offset >= get_min_offset_in_queue(req[h].topic, req[h].queue_id)
              /\ req[h].offset <= get_max_offset_in_queue(req[h].topic, req[h].queue_id)
              /\ ~is_order(req[h].extra_info)
              /\ c.status \in AcceptedCkStatuses )
            => /\ Len(ret[h]) = 1
               /\ IsSuccess(ret[h][1])
               /\ ret[h][1].invisible_time = req[h].invisible_time
               /\ ret[h][1].pop_time = c.pop_time
               /\ ret[h][1].revive_qid = get_revive_qid(req[h].extra_info).val

\* a success at the upper offset bound, with a degraded-durability status
C3_Witness ==
    \E h \in Handlers :
        /\ pc[h] = "done"
        /\ req[h].offset = StoreMaxOffset
        /\ req[h].invisible_time = 8
        /\ \E c \in Checkpoints(h) : c.status = "SlaveNotAvailable" /\ c.pop_time = 21
        /\ Len(ret[h]) = 1
        /\ IsSuccess(ret[h][1])
        /\ ret[h][1].revive_qid = 1

(* C4  Atomic decoding of extra_info.  A handler whose request carries an  *)
(* extra_info with a required field (revive queue id, broker name,         *)
(* checkpoint queue offset, pop time, invisible time) absent or unparsable *)
(* never appends a checkpoint, never offers or writes an acknowledgment,   *)
(* never increments an ack counter and never returns a success response.   *)
ExtraInfoMalformed(extra_info) ==
    \/ ~get_revive_qid(extra_info).ok
    \/ ~get_broker_name(extra_info).ok
    \/ ~get_ck_queue_offset(extra_info).ok
    \/ ~get_pop_time(extra_info).ok
    \/ ~get_invisible_time(extra_info).ok

C4_AtomicDecode ==
    \A h \in Handlers :
        (Started(h) /\ req[h].decodable /\ ExtraInfoMalformed(req[h].extra_info)) =>
            /\ NoCheckpointOrAck(h)
            /\ \A i \in 1 .. Len(ret[h]) : ~IsSuccess(ret[h][i])

(* C5  Exactly one response.  A handler that has terminated has returned   *)
(* exactly one response, with one of the codes TopicNotExist,              *)
(* MessageIllegal, NoMessage, SystemError or success; and no handler ever  *)
(* returns more than one.                                                  *)
C5_ExactlyOneResponse ==
    \A h \in Handlers :
        /\ Len(ret[h]) <= 1
        /\ Terminated(h) =>
              /\ Len(ret[h]) = 1
              /\ ret[h][1].kind = "Response"
              /\ ret[h][1].code \in {"TopicNotExist", "MessageIllegal", "NoMessage",
                                     "SystemError", "Success"}

(* C6  Fast path or durable path.  If add_ack accepted the record of a     *)
(* handler, no durable revive-topic message of that handler exists.  If    *)
(* add_ack declined and ack_origin is over, exactly one durable message of *)
(* that handler has been put, to the cluster revive topic, with the revive *)
(* queue id of extra_info as queue id, tagged with the ack tag, and        *)
(* delayed to pop_time + invisible_time of extra_info.                     *)
AddAckAnswered(h, answer) ==
    \E i \in 1 .. Len(trace[h]) :
        trace[h][i].op = "add_ack" /\ trace[h][i].arg = answer

C6_FastOrDurable ==
    \A h \in Handlers :
        /\ AddAckAnswered(h, "true") => ReviveMessages(h) = {}
        /\ (AddAckAnswered(h, "false") /\ pc[h] \in {"respond", "done"}) =>
              /\ Cardinality({i \in 1 .. Len(reviveStore) : reviveStore[i].by = h}) = 1
              /\ \A m \in ReviveMessages(h) :
                    /\ m.msg.topic = ReviveTopic
                    /\ m.msg.tags = ACK_TAG
                    /\ m.msg.queue_id = get_revive_qid(req[h].extra_info).val
                    /\ m.msg.delay_time_ms =
                          get_pop_time(req[h].extra_info).val
                          + get_invisible_time(req[h].extra_info).val

(* C7  Acknowledgment failures are not escalated.  A handler whose         *)
(* checkpoint append returned an accepted status and that has returned,    *)
(* has returned the success response with the populated header, whether    *)
(* add_ack accepted or declined, whatever status the durable put returned  *)
(* and whether ack_origin ended in an error.                               *)
C7_AckNotEscalated ==
    \A h \in Handlers :
        (pc[h] = "done" /\ loc[h].ck_status \in AcceptedCkStatuses) =>
            /\ loc[h].ack_result \in {"Ok", "Err"}
            /\ ret[h] = << [kind |-> "Response", code |-> "Success",
                            pop_time |-> loc[h].now,
                            revive_qid |-> loc[h].revive_qid,
                            invisible_time |-> req[h].invisible_time] >>

\* ack_origin returned an error after the buffer declined, and the response is success
C7_Witness ==
    \E h \in Handlers :
        /\ pc[h] = "done"
        /\ loc[h].ack_result = "Err"
        /\ AddAckAnswered(h, "false")
        /\ Len(ret[h]) = 1
        /\ IsSuccess(ret[h][1])

(* C8  Offset out of the live range, as stated: a handler that has         *)
(* returned for a request on an existing topic whose offset is below the   *)
(* store's min offset or above its max offset for (topic, queue_id) has    *)
(* returned NoMessage and has produced no checkpoint and no ack.           *)
OffsetBelowOrAbove(h) ==
    \/ req[h].offset < get_min_offset_in_queue(req[h].topic, req[h].queue_id)
    \/ req[h].offset > get_max_offset_in_queue(req[h].topic, req[h].queue_id)

C8_NoMessageAnyQueue ==
    \A h \in Handlers :
        (pc[h] = "done" /\ OnExistingTopic(h) /\ OffsetBelowOrAbove(h)) =>
            /\ ReturnedCode(h, "NoMessage")
            /\ NoCheckpointOrAck(h)

(* C8, amended.  The same for a request whose queue_id is in               *)
(* [0, read_queue_nums): such a handler never produces a checkpoint or an  *)
(* ack, and when it has returned it has returned NoMessage; and the bounds *)
(* are inclusive: a request with offset = min_offset or offset =           *)
(* max_offset on such a queue is never answered NoMessage.                 *)
C8_NoMessage ==
    \A h \in Handlers :
        (OnExistingTopic(h) /\ QueueIdInRange(h)) =>
            /\ OffsetBelowOrAbove(h) =>
                  /\ NoCheckpointOrAck(h)
                  /\ pc[h] \in {"decode_header", "select_topic", "check_queue_id",
                                "check_offset", "done"}
                  /\ pc[h] = "done" => ReturnedCode(h, "NoMessage")
            /\ req[h].offset \in {StoreMinOffset, StoreMaxOffset} =>
                  ~ReturnedCode(h, "NoMessage")

\* NoMessage for an offset just above the max, with a malformed extra_info
C8_Witness ==
    \E h \in Handlers :
        /\ pc[h] = "done"
        /\ QueueIdInRange(h)
        /\ req[h].offset = StoreMaxOffset + 1
        /\ req[h].extra_info = <<>>
        /\ ReturnedCode(h, "NoMessage")

(* C9  Illegal queue id.  A handler of a request on an existing topic with *)
(* queue_id < 0 or queue_id >= read_queue_nums never produces a checkpoint *)
(* or an ack and never asks the store for the offset range, whatever the   *)
(* offset and extra_info; when it has returned, it has returned            *)
(* MessageIllegal.                                                         *)
C9_MessageIllegal ==
    \A h \in Handlers :
        (OnExistingTopic(h) /\ ~QueueIdInRange(h)) =>
            /\ NoCheckpointOrAck(h)
            /\ loc[h].store_queries = 0
            /\ pc[h] \in {"decode_header", "select_topic", "check_queue_id", "done"}
            /\ pc[h] = "done" => ReturnedCode(h, "MessageIllegal")

\* queue_id = read_queue_nums with an offset in range and a well-formed extra_info
C9_Witness ==
    \E h \in Handlers :
        /\ pc[h] = "done"
        /\ req[h].queue_id = ReadQueueNums
        /\ req[h].offset = StoreMinOffset
        /\ req[h].extra_info = <<"false", "1", "b1", "1", "3", "5">>
        /\ ReturnedCode(h, "MessageIllegal")

(* C10  Unknown topic.  A handler of a request that references a topic     *)
(* with no configuration never produces a checkpoint or an ack, whatever   *)
(* queue_id, offset and extra_info are; when it has returned, it has       *)
(* returned TopicNotExist.                                                 *)
C10_TopicNotExist ==
    \A h \in Handlers :
        (Started(h) /\ req[h].decodable /\ req[h].topic \notin ConfiguredTopics) =>
            /\ NoCheckpointOrAck(h)
            /\ loc[h].store_queries = 0
            /\ pc[h] \in {"decode_header", "select_topic", "done"}
            /\ pc[h] = "done" => ReturnedCode(h, "TopicNotExist")

\* an unknown topic with an illegal queue id and an offset out of any range
C10_Witness ==
    \E h \in Handlers :
        /\ pc[h] = "done"
        /\ req[h].topic = "TopicX"
        /\ req[h].queue_id < 0
        /\ req[h].offset = StoreMaxOffset + 1
        /\ ReturnedCode(h, "TopicNotExist")

(* C11  Concurrent requests for the same message.  When two handlers run  *)
(* at the same time on requests for the same (topic, queue, offset), in    *)
(* any interleaving: a handler that has not terminated can always take its *)
(* next step, whatever the other has done; what a handler returns is       *)
(* decided by its own request and its own checkpoint status alone (success *)
(* with its own now, revive queue id and invisible time after an accepted  *)
(* append, SystemError after a refused one); and once both appends are     *)
(* accepted the store holds exactly two checkpoints, one per handler, each *)
(* with its handler's own pop time, revive queue id and invisible time.    *)
Step(h) ==
    \/ Receive(h) \/ DecodeHeader(h) \/ SelectTopic(h) \/ CheckQueueId(h)
    \/ CheckOffset(h) \/ SplitExtraInfo(h)
    \/ ProcessChangeInvisibleTimeForOrder(h) \/ NewCk(h) \/ AppendCheckPoint(h)
    \/ MatchCk(h) \/ AckOrigin(h) \/ IncBrokerAckNums(h) \/ IncGroupAckNums(h)
    \/ AddAck(h) \/ BuildInner(h) \/ PutMessageToSpecificQueue(h) \/ Respond(h)

SameMessage(h, g) ==
    /\ Started(h) /\ Started(g)
    /\ req[h].decodable /\ req[g].decodable
    /\ req[h].topic = req[g].topic
    /\ req[h].queue_id = req[g].queue_id
    /\ req[h].offset = req[g].offset

OwnCheckpoint(h, c) ==
    /\ c.topic = req[h].topic /\ c.queue_id = req[h].queue_id
    /\ c.offset = req[h].offset
    /\ c.invisible_time = req[h].invisible_time
    /\ c.pop_time = loc[h].now
    /\ c.revive_qid = get_revive_qid(req[h].extra_info).val
    /\ c.status = loc[h].ck_status

C11_Independent ==
    \A h \in Handlers : \A g \in Handlers \ {h} :
        SameMessage(h, g) =>
            /\ ~Terminated(h) => ENABLED Step(h)
            /\ (pc[h] = "done" /\ loc[h].ck_status \in AcceptedCkStatuses) =>
                  ret[h] = << [kind |-> "Response", code |-> "Success",
                               pop_time |-> loc[h].now,
                               revive_qid |-> get_revive_qid(req[h].extra_info).val,
                               invisible_time |-> req[h].invisible_time] >>
            /\ (pc[h] = "done" /\ loc[h].ck_status # ""
                  /\ loc[h].ck_status \notin AcceptedCkStatuses) =>
                  ReturnedCode(h, "SystemError")
            /\ (loc[h].ck_status \in AcceptedCkStatuses
                  /\ loc[g].ck_status \in AcceptedCkStatuses) =>
                  /\ Len(ckStore) = 2
                  /\ \E i \in 1 .. 2 :
                        /\ ckStore[i].by = h /\ OwnCheckpoint(h, ckStore[i])
                        /\ ckStore[3 - i].by = g /\ OwnCheckpoint(g, ckStore[3 - i])

\* both handlers answered success; the second to receive appended first, one
\* ack went to the buffer and the other to the revive topic
C11_Witness ==
    /\ pc["h1"] = "done" /\ pc["h2"] = "done"
    /\ SameMessage("h1", "h2")
    /\ Len(ret["h1"]) = 1 /\ IsSuccess(ret["h1"][1])
    /\ Len(ret["h2"]) = 1 /\ IsSuccess(ret["h2"][1])
    /\ Len(ckStore) = 2 /\ ckStore[1].by = "h2" /\ ckStore[2].by = "h1"
    /\ req["h1"].invisible_time # req["h2"].invisible_time
    /\ BufferedAcks("h1") # {} /\ ReviveMessages("h2") # {}

---------------------------------------------------------------------------
(* Properties of QueryConsumerOffsetRequestHeader.                         *)

SameFields(a, b) ==
    /\ a.consumer_group = b.consumer_group
    /\ a.topic = b.topic
    /\ a.queue_id = b.queue_id
    /\ a.set_zero_if_not_found = b.set_zero_if_not_found

(* C12  Header map round trip.  Whenever the map produced by to_map(h) has *)
(* been decoded by FromMap::from, the decoding succeeded and gave a header *)
(* with the consumer_group, topic, queue_id (negative ones too) and        *)
(* set_zero_if_not_found (Some(true), Some(false) or None) of h; decoding  *)
(* such a map never panics.                                                *)
C12_RoundTrip ==
    horigin = "to_map" =>
        /\ hstage # "panicked"
        /\ hstage = "decoded" =>
              /\ hdecoded.outcome = "Ok"
              /\ SameFields(hdecoded.header, hsrc)

\* a negative queue id and an unset flag came back
C12_Witness ==
    /\ hstage = "decoded"
    /\ horigin = "to_map"
    /\ hsrc.queue_id = 0 - 120
    /\ hsrc.set_zero_if_not_found = None
    /\ hsrc.topic_request_header = Some([lo |-> Some(TRUE)])
    /\ hdecoded.outcome = "Ok"
    /\ hdecoded.header.queue_id = 0 - 120
    /\ hdecoded.header.set_zero_if_not_found = None

(* C18  Unknown and absent keys.  Decoding a map to which keys the header  *)
(* does not know have been added gives the same outcome and the same       *)
(* consumer_group, topic, queue_id and set_zero_if_not_found as decoding   *)
(* the map without them; a map without setZeroIfNotFound decodes to        *)
(* set_zero_if_not_found = None; and the map to_map produces for a header  *)
(* whose set_zero_if_not_found is None has no setZeroIfNotFound key.       *)
C18_UnknownAndAbsentKeys ==
    /\ (hstage = "decoded" /\ hfirst # NotDecoded) =>
          /\ hdecoded.outcome = hfirst.outcome
          /\ SameFields(hdecoded.header, hfirst.header)
    /\ (hstage = "decoded" /\ SET_ZERO_IF_NOT_FOUND \notin DOMAIN hmap) =>
          hdecoded.header.set_zero_if_not_found = None
    /\ (horigin = "to_map" /\ ~hsrc.set_zero_if_not_found.some) =>
          SET_ZERO_IF_NOT_FOUND \notin DOMAIN hmap

\* a peer's map without setZeroIfNotFound, decoded before and after two unknown keys
C18_Witness ==
    /\ hstage = "decoded"
    /\ horigin = "peer"
    /\ UnknownKeys \subseteq DOMAIN hmap
    /\ SET_ZERO_IF_NOT_FOUND \notin DOMAIN hmap
    /\ QUEUE_ID \in DOMAIN hmap
    /\ hfirst.outcome = "Ok"
    /\ hdecoded.outcome = "Ok"
    /\ hdecoded.header.queue_id = 0 - 9

---------------------------------------------------------------------------
\* ack_origin has been called by handler h and has returned
AckOriginReturned(h) == loc[h].ack_result \in {"Ok", "Err"}

DegradedStatuses == {"FlushDiskTimeout", "FlushSlaveTimeout", "SlaveNotAvailable"}

CountOps(h, op) == Cardinality({i \in 1 .. Len(trace[h]) : trace[h][i].op = op})

(* C13 as stated: a handler whose checkpoint append returned               *)
(* ServiceNotAvailable and that has returned, has run the acknowledgment   *)
(* pipeline and returned the success response, not SystemError.            *)
C13_ServiceNotAvailableAccepted ==
    \A h \in Handlers :
        (loc[h].ck_status = "ServiceNotAvailable" /\ pc[h] = "done") =>
            /\ ReturnedCode(h, "Success")
            /\ AckOriginReturned(h)

(* C13 amended: a checkpoint append that returns FlushDiskTimeout,         *)
(* FlushSlaveTimeout or SlaveNotAvailable is treated like PutOk (no error  *)
(* is logged for it, ack_origin is called and the success response is      *)
(* returned), but one that returns ServiceNotAvailable is not: the error   *)
(* is logged, ack_origin is never called and the handler returns           *)
(* SystemError.                                                            *)
C13_ServiceNotAvailableAborts ==
    \A h \in Handlers :
        /\ (loc[h].ck_status \in DegradedStatuses /\ pc[h] = "done") =>
              /\ ReturnedCode(h, "Success")
              /\ AckOriginReturned(h)
              /\ "put new ck error" \notin SeqToSet(errorLog[h])
        /\ loc[h].ck_status = "ServiceNotAvailable" =>
              /\ ~AckOriginReturned(h)
              /\ AckCalls(h) = {}
              /\ pc[h] \in {"match_ck", "done"}
              /\ pc[h] = "done" =>
                    /\ ReturnedCode(h, "SystemError")
                    /\ errorLog[h] = <<"put new ck error">>

C13_Witness ==
    \E h \in Handlers :
        /\ loc[h].ck_status = "ServiceNotAvailable"
        /\ pc[h] = "done"
        /\ ReturnedCode(h, "SystemError")
        /\ Checkpoints(h) # {}
        /\ errorLog[h] = <<"put new ck error">>

(* C14 as stated: whenever ack_origin has been called and has returned     *)
(* (with Ok or with Err, through the buffer or through the durable put),   *)
(* it has incremented the broker ack counter exactly once and the counter  *)
(* of the request's (consumer group, topic) exactly once, both before any  *)
(* add_ack offer.                                                          *)
C14_CountersUnconditional ==
    \A h \in Handlers :
        AckOriginReturned(h) =>
            /\ CountOps(h, "inc_broker_ack_nums") = 1
            /\ CountOps(h, "inc_group_ack_nums") = 1
            /\ brokerAckNums >= 1
            /\ groupAckNums[<<req[h].consumer_group, req[h].topic>>] >= 1
            /\ \A i \in 1 .. Len(trace[h]) :
                  trace[h][i].op = "add_ack" =>
                      \E j, k \in 1 .. (i - 1) :
                          /\ trace[h][j].op = "inc_broker_ack_nums"
                          /\ trace[h][k].op = "inc_group_ack_nums"

---------------------------------------------------------------------------
\* the acknowledgment record the request of handler h calls for
ExpectedAckMsg(h) ==
    [ack_offset |-> req[h].offset,
     start_offset |-> get_ck_queue_offset(req[h].extra_info).val,
     consumer_group |-> req[h].consumer_group,
     topic |-> req[h].topic,
     queue_id |-> req[h].queue_id,
     pop_time |-> get_pop_time(req[h].extra_info).val,
     broker_name |-> get_broker_name(req[h].extra_info).val]

(* C15  The acknowledgment record.  From the moment ack_origin has built   *)
(* it, the record of a handler has ack_offset = the request's offset,      *)
(* start_offset = the checkpoint queue offset of extra_info,               *)
(* consumer_group, topic and queue_id of the request, and pop_time and     *)
(* broker_name of extra_info; every record of the handler in the merge     *)
(* buffer and the body of every revive-topic message of the handler is     *)
(* that record.                                                            *)
C15_AckRecord ==
    \A h \in Handlers :
        /\ pc[h] \in {"inc_broker_ack_nums", "inc_group_ack_nums", "add_ack",
                      "build_inner", "put_message"}
              => loc[h].ack_msg = ExpectedAckMsg(h)
        /\ \A a \in BufferedAcks(h) : a.ack_msg = ExpectedAckMsg(h)
        /\ \A m \in ReviveMessages(h) : m.msg.body = ExpectedAckMsg(h)

\* a durable ack whose offsets differ and whose pop_time is not the handler's now
C15_Witness ==
    \E h \in Handlers :
        \E m \in ReviveMessages(h) :
            /\ m.msg.body.ack_offset = 2
            /\ m.msg.body.start_offset = 1
            /\ m.msg.body.pop_time = 3
            /\ m.msg.body.broker_name = "b1"
            /\ loc[h].now = 20
            /\ AddAckAnswered(h, "false")

(* C16  The ordered branch.  A handler whose request is on an existing     *)
(* topic, with queue_id in [0, read_queue_nums) and offset in              *)
(* [min_offset, max_offset], and whose extra_info has is_order set, never  *)
(* enters the normal branch: it appends no checkpoint, makes no            *)
(* acknowledgment call, calls no ack_origin, logs nothing and returns      *)
(* nothing of its own; after the split it is in the ordered branch.        *)
C16_OrderedBranch ==
    \A h \in Handlers :
        (OnExistingTopic(h) /\ QueueIdInRange(h) /\ ~OffsetBelowOrAbove(h)
            /\ is_order(req[h].extra_info)) =>
            /\ NoCheckpointOrAck(h)
            /\ ~AckOriginReturned(h)
            /\ loc[h].ck_status = ""
            /\ ret[h] = <<>>
            /\ errorLog[h] = <<>>
            /\ pc[h] \in {"decode_header", "select_topic", "check_queue_id",
                          "check_offset", "split_extra_info", "order", "panicked"}

C16_Witness ==
    \E h \in Handlers :
        /\ pc[h] = "panicked"
        /\ is_order(loc[h].extra_info)
        /\ OnExistingTopic(h)
        /\ ckStore = <<>>
        /\ ret[h] = <<>>

---------------------------------------------------------------------------
\* the status the durable put of handler h was answered with, if it was made
PutStatuses(h) ==
    {trace[h][i].arg : i \in {j \in 1 .. Len(trace[h]) :
                                trace[h][j].op = "put_message_to_specific_queue"}}

(* C17 as stated: after the durable put of a handler, nothing has been     *)
(* logged exactly when the put's status is one the checkpoint path         *)
(* accepts; a status outside that set is logged, and the handler still     *)
(* returns the success response.                                           *)
C17_SameAcceptedSet ==
    \A h \in Handlers :
        \A status \in PutStatuses(h) :
            /\ errorLog[h] = <<>> <=> status \in AcceptedCkStatuses
            /\ pc[h] = "done" => ReturnedCode(h, "Success")

(* C17 amended: after the durable put of a handler, nothing has been       *)
(* logged exactly when the put's status is one the checkpoint path accepts *)
(* or ServiceNotAvailable; every other status is logged once as an error,  *)
(* and in both cases ack_origin returns Ok and the handler returns the     *)
(* success response.                                                       *)
C17_AckAcceptedSet ==
    \A h \in Handlers :
        \A status \in PutStatuses(h) :
            /\ errorLog[h] = <<>>
                  <=> status \in AcceptedCkStatuses \cup {"ServiceNotAvailable"}
            /\ errorLog[h] # <<>> => errorLog[h] = <<"put ack msg error">>
            /\ loc[h].ack_result = "Ok"
            /\ pc[h] \in {"respond", "done"}
            /\ pc[h] = "done" => ReturnedCode(h, "Success")

C17_Witness ==
    \E h \in Handlers :
        /\ PutStatuses(h) = {"ServiceNotAvailable"}
        /\ errorLog[h] = <<>>
        /\ pc[h] = "done"
        /\ ReturnedCode(h, "Success")

\* the revive queue id of the request of handler h
RequestReviveQid(h) == get_revive_qid(req[h].extra_info).val

(* C19  One revive queue id.  Every checkpoint of a handler carries the    *)
(* revive queue id decoded from its request's extra_info, every ack of the *)
(* handler in the merge buffer is keyed by it, every revive-topic message  *)
(* of the handler has it as queue id, and a success response of the        *)
(* handler returns it as revive_qid.                                       *)
C19_OneReviveQid ==
    \A h \in Handlers :
        /\ \A c \in Checkpoints(h) : c.revive_qid = RequestReviveQid(h)
        /\ \A a \in BufferedAcks(h) : a.rq_id = RequestReviveQid(h)
        /\ \A m \in ReviveMessages(h) : m.msg.queue_id = RequestReviveQid(h)
        /\ \A i \in 1 .. Len(ret[h]) :
              IsSuccess(ret[h][i]) => ret[h][i].revive_qid = RequestReviveQid(h)

\* revive queue 1 used for a request on queue 0, up to the durable message
C19_Witness ==
    \E h \in Handlers :
        /\ pc[h] = "done"
        /\ ReturnedCode(h, "Success")
        /\ req[h].queue_id = 0
        /\ RequestReviveQid(h) = 1
        /\ ret[h][1].revive_qid = 1
        /\ \E c \in Checkpoints(h) : c.revive_qid = 1
        /\ \E m \in ReviveMessages(h) : m.msg.queue_id = 1

OwnEntries(store, h) == Cardinality({i \in 1 .. Len(store) : store[i].by = h})

(* C20  No retry, no compensation.  In every step, each handler has made   *)
(* at most one checkpoint append, at most one add_ack offer and at most    *)
(* one durable put, and the checkpoint store after the step is the store   *)
(* before it with nothing removed or changed (at most extended).           *)
C20_NoRetryNoRollback ==
    [][ /\ \A h \in Handlers :
              /\ CountOps(h, "append_check_point")' <= 1
              /\ CountOps(h, "add_ack")' <= 1
              /\ CountOps(h, "put_message_to_specific_queue")' <= 1
              /\ OwnEntries(ckStore, h)' <= 1
              /\ OwnEntries(ackBuffer, h)' <= 1
              /\ OwnEntries(reviveStore, h)' <= 1
        /\ Len(ckStore') >= Len(ckStore)
        /\ SubSeq(ckStore', 1, Len(ckStore)) = ckStore
      ]_vars

\* the ack failed after the declined offer and the checkpoint is still in the store
C20_Witness ==
    \E h \in Handlers :
        /\ pc[h] = "done"
        /\ loc[h].ack_result = "Err"
        /\ CountOps(h, "append_check_point") = 1
        /\ CountOps(h, "add_ack") = 1
        /\ CountOps(h, "put_message_to_specific_queue") = 0
        /\ OwnEntries(ckStore, h) = 1
        /\ ckStore[1].status = "FlushSlaveTimeout"

=============================================================================
